---- MODULE Spec2Model ----
(***************************************************************************)
(* State-machine model of the NFToken contract (src/src/lib.rs).           *)
(*                                                                         *)
(* The contract storage (owner, total_minted, id_to_owner,                 *)
(* owner_to_token_count, approvals) is the state.  Every public message    *)
(* (deploy, transfer, transfer_from, mint, approval) is one atomic action; *)
(* the host serialises calls and reverts the storage of a call that traps. *)
(* u64 arithmetic is modelled modulo Modulus; an overflowing + or - traps  *)
(* when the build has overflow checks and wraps when it has none.          *)
(* The events a message emits go to the host and are not storage; they    *)
(* are left out.  A claim about a message is stated on the outcome record  *)
(* of its operator, evaluated in every reachable storage for every input.  *)
(***************************************************************************)
EXTENDS Integers, FiniteSets, Sequences, TLC

\* ------------------------------------------------------------------ bounds
\* number of values of the unsigned counter type (stands for 2^64)
Modulus == 4
\* minting is explored while total_minted + value stays within this bound
MaxMinted == 2
\* largest amount passed to deploy and mint
MaxValue == 2
\* number of values of the counter type in the end-to-end scenario: more than
\* any value the scenario computes, so that nothing overflows there
ScenarioWord == 128
\* the initial amount of the end-to-end scenario (tests::it_works)
ScenarioAmount == 100

\* AccountIds are opaque and only compared for equality
Identities == {"alice", "bob", "charlie"}
\* the account that deploys; the identities are interchangeable, one is enough
Deployers == {"alice"}
TokenIds == 0 .. MaxMinted
Values == 0 .. MaxValue

VARIABLES
    owner,                  \* storage::Value<AccountId>
    total_minted,           \* storage::Value<u64>
    id_to_owner,            \* storage::HashMap<u64, AccountId>
    owner_to_token_count,   \* storage::HashMap<AccountId, u64>
    approvals,              \* storage::HashMap<u64, AccountId>
    deployed,               \* the deployment hook has run
    overflow_checks,        \* the build traps on arithmetic overflow
    word,                   \* number of values of u64 in this run
    scenario                \* progress of the end-to-end scenario, when it runs

vars == <<owner, total_minted, id_to_owner, owner_to_token_count, approvals,
          deployed, overflow_checks, word, scenario>>

\* the value of an AccountId storage cell that was never set
NoAccount == "nobody"

\* ------------------------------------------------------- storage helpers
\* storage::HashMap::insert
Insert(m, k, v) == [x \in (DOMAIN m) \cup {k} |-> IF x = k THEN v ELSE m[x]]

\* storage::HashMap::remove
Remove(m, k) == [x \in (DOMAIN m) \ {k} |-> m[x]]

\* the empty storage::HashMap
EmptyMap == [x \in {} |-> 0]

\* the contract storage as one value
Storage == [owner |-> owner,
            total_minted |-> total_minted,
            id_to_owner |-> id_to_owner,
            owner_to_token_count |-> owner_to_token_count,
            approvals |-> approvals]

\* u64 addition: the wrapped sum, and whether it overflowed
WrapAdd(a, b) == (a + b) % word
AddOverflows(a, b) == a + b >= word

\* u64 subtraction: the wrapped difference, and whether it underflowed
WrapSub(a, b) == (a - b + word) % word
SubOverflows(a, b) == a < b

\* the outcome of a call: the storage it leaves, its return value, whether it
\* trapped (a trapped call is reverted by the host and returns nothing)
Outcome(st, ret) == [st |-> st, ret |-> ret, trap |-> FALSE]
Trap(s) == [st |-> s, ret |-> FALSE, trap |-> TRUE]

\* --------------------------------------------------------------- queries
is_approved(s, token_id, approved) ==
    IF token_id \notin DOMAIN s.approvals THEN FALSE
    ELSE IF s.approvals[token_id] = approved THEN TRUE
    ELSE FALSE

get_total_minted(s) == s.total_minted

balance_of(s, who) ==
    IF who \in DOMAIN s.owner_to_token_count
    THEN s.owner_to_token_count[who] ELSE 0

is_token_owner(s, of, token_id) ==
    IF token_id \notin DOMAIN s.id_to_owner THEN FALSE
    ELSE IF s.id_to_owner[token_id] # of THEN FALSE
    ELSE TRUE

\* ------------------------------------------------------- private methods
\* transfer_impl that also clears the approval of the token it moves
transfer_impl_clears_approval(s, from, to, token_id) ==
    IF ~is_token_owner(s, from, token_id) THEN Outcome(s, FALSE)
    ELSE
      LET from_owner_count == balance_of(s, from)
          to_owner_count == balance_of(s, to)
          counts == Insert(Insert(s.owner_to_token_count,
                                  from, WrapSub(from_owner_count, 1)),
                           to, WrapAdd(to_owner_count, 1))
      IN  IF overflow_checks /\ (SubOverflows(from_owner_count, 1)
                                 \/ AddOverflows(to_owner_count, 1))
          THEN Trap(s)
          ELSE Outcome([s EXCEPT !.id_to_owner = Insert(@, token_id, to),
                                 !.owner_to_token_count = counts,
                                 !.approvals = Remove(@, token_id)], TRUE)

\* transfer_impl that takes the owner record away instead of rewriting it
transfer_impl_drops_record(s, from, to, token_id) ==
    IF ~is_token_owner(s, from, token_id) THEN Outcome(s, FALSE)
    ELSE
      LET from_owner_count == balance_of(s, from)
          to_owner_count == balance_of(s, to)
          counts == Insert(Insert(s.owner_to_token_count,
                                  from, WrapSub(from_owner_count, 1)),
                           to, WrapAdd(to_owner_count, 1))
      IN  IF overflow_checks /\ (SubOverflows(from_owner_count, 1)
                                 \/ AddOverflows(to_owner_count, 1))
          THEN Trap(s)
          ELSE Outcome([s EXCEPT !.id_to_owner = Remove(@, token_id),
                                 !.owner_to_token_count = counts], TRUE)

\* transfer_impl: the owner record first, then the two token counts, both read
\* before either is written
transfer_impl(s, from, to, token_id) ==
    IF ~is_token_owner(s, from, token_id) THEN Outcome(s, FALSE)
    ELSE
      LET from_owner_count == balance_of(s, from)
          to_owner_count == balance_of(s, to)
          counts == Insert(Insert(s.owner_to_token_count,
                                  from, WrapSub(from_owner_count, 1)),
                           to, WrapAdd(to_owner_count, 1))
      IN  IF overflow_checks /\ (SubOverflows(from_owner_count, 1)
                                 \/ AddOverflows(to_owner_count, 1))
          THEN Trap(s)
          ELSE Outcome([s EXCEPT !.id_to_owner = Insert(@, token_id, to),
                                 !.owner_to_token_count = counts], TRUE)

\* mint_impl: the loop runs over the half-open range start_id..stop_id, the
\* count that grows is the contract owner's
mint_impl(s, receiver, value) ==
    LET start_id == WrapAdd(s.total_minted, 1)
        stop_id == WrapAdd(s.total_minted, value)
        minted == start_id .. (stop_id - 1)
        from_owner_count == balance_of(s, s.owner)
    IN  IF overflow_checks /\ (AddOverflows(s.total_minted, 1)
                               \/ AddOverflows(s.total_minted, value)
                               \/ AddOverflows(from_owner_count, value))
        THEN Trap(s)
        ELSE Outcome(
               [s EXCEPT
                  !.id_to_owner =
                      [t \in (DOMAIN @) \cup minted |->
                          IF t \in minted THEN receiver ELSE @[t]],
                  !.owner_to_token_count =
                      Insert(@, s.owner, WrapAdd(from_owner_count, value)),
                  !.total_minted = WrapAdd(@, value)],
               TRUE)

\* -------------------------------------------------------- public messages
\* Deploy::deploy; it returns nothing, ret is TRUE when it completes
deploy(s, caller, init_value) ==
    LET s1 == [s EXCEPT !.total_minted = 0, !.owner = caller]
    IN  IF init_value > 0
        THEN LET r == mint_impl(s1, caller, init_value)
             IN  IF r.trap THEN Trap(s) ELSE Outcome(r.st, TRUE)
        ELSE Outcome(s1, TRUE)

transfer(s, caller, to, token_id) ==
    LET r == transfer_impl(s, caller, to, token_id)
    IN  IF r.trap THEN r
        ELSE IF r.ret = TRUE THEN Outcome(r.st, TRUE)
        ELSE Outcome(r.st, FALSE)

\* transfer_from that looks at the approval before it looks at the owner
transfer_from_approval_first(s, caller, to, token_id) ==
    IF token_id \in DOMAIN s.approvals
    THEN IF s.approvals[token_id] = caller
         THEN transfer_impl(s, caller, to, token_id)
         ELSE Outcome(s, FALSE)
    ELSE IF is_token_owner(s, caller, token_id)
         THEN transfer_impl(s, caller, to, token_id)
    ELSE Outcome(s, FALSE)

transfer_from(s, caller, to, token_id) ==
    IF is_token_owner(s, caller, token_id)
    THEN transfer_impl(s, caller, to, token_id)
    ELSE IF token_id \notin DOMAIN s.approvals THEN Outcome(s, FALSE)
    ELSE IF s.approvals[token_id] = caller
         THEN transfer_impl(s, caller, to, token_id)
    ELSE Outcome(s, FALSE)

\* mint without the contract-owner gate
mint_ungated(s, caller, to, value) ==
    LET r == mint_impl(s, to, value)
    IN  IF r.trap THEN r
        ELSE IF r.ret = TRUE THEN Outcome(r.st, TRUE)
        ELSE Outcome(r.st, FALSE)

mint(s, caller, to, value) ==
    IF caller # s.owner THEN Outcome(s, FALSE)
    ELSE LET r == mint_impl(s, to, value)
         IN  IF r.trap THEN r
             ELSE IF r.ret = TRUE THEN Outcome(r.st, TRUE)
             ELSE Outcome(r.st, FALSE)

\* approval that keeps an existing delegate when asked to grant another
approval_no_overwrite(s, caller, to, token_id, approved) ==
    IF token_id \notin DOMAIN s.id_to_owner THEN Outcome(s, FALSE)
    ELSE IF s.id_to_owner[token_id] # caller THEN Outcome(s, FALSE)
    ELSE IF token_id \notin DOMAIN s.approvals
         THEN IF approved = TRUE
              THEN Outcome([s EXCEPT !.approvals = Insert(@, token_id, to)], TRUE)
              ELSE Outcome(s, FALSE)
    ELSE LET existing == s.approvals[token_id]
             removed == IF existing = to /\ approved = FALSE
                        THEN Remove(s.approvals, token_id)
                        ELSE s.approvals
         IN  Outcome([s EXCEPT !.approvals = removed], TRUE)

\* approval that revokes whatever delegate is approved, without comparing it
approval_revoke_any(s, caller, to, token_id, approved) ==
    IF token_id \notin DOMAIN s.id_to_owner THEN Outcome(s, FALSE)
    ELSE IF s.id_to_owner[token_id] # caller THEN Outcome(s, FALSE)
    ELSE IF token_id \notin DOMAIN s.approvals
         THEN IF approved = TRUE
              THEN Outcome([s EXCEPT !.approvals = Insert(@, token_id, to)], TRUE)
              ELSE Outcome(s, FALSE)
    ELSE LET removed == IF approved = FALSE
                        THEN Remove(s.approvals, token_id)
                        ELSE s.approvals
             written == IF approved = TRUE
                        THEN Insert(removed, token_id, to)
                        ELSE removed
         IN  Outcome([s EXCEPT !.approvals = written], TRUE)

\* approval that checks the token exists but not who calls
approval_any_caller(s, caller, to, token_id, approved) ==
    IF token_id \notin DOMAIN s.id_to_owner THEN Outcome(s, FALSE)
    ELSE IF token_id \notin DOMAIN s.approvals
         THEN IF approved = TRUE
              THEN Outcome([s EXCEPT !.approvals = Insert(@, token_id, to)], TRUE)
              ELSE Outcome(s, FALSE)
    ELSE LET existing == s.approvals[token_id]
             removed == IF existing = to /\ approved = FALSE
                        THEN Remove(s.approvals, token_id)
                        ELSE s.approvals
             written == IF approved = TRUE
                        THEN Insert(removed, token_id, to)
                        ELSE removed
         IN  Outcome([s EXCEPT !.approvals = written], TRUE)

\* approval that lets anyone write the entry of an id that has no owner record
approval_unminted(s, caller, to, token_id, approved) ==
    IF token_id \in DOMAIN s.id_to_owner /\ s.id_to_owner[token_id] # caller
    THEN Outcome(s, FALSE)
    ELSE IF token_id \notin DOMAIN s.approvals
         THEN IF approved = TRUE
              THEN Outcome([s EXCEPT !.approvals = Insert(@, token_id, to)], TRUE)
              ELSE Outcome(s, FALSE)
    ELSE LET existing == s.approvals[token_id]
             removed == IF existing = to /\ approved = FALSE
                        THEN Remove(s.approvals, token_id)
                        ELSE s.approvals
             written == IF approved = TRUE
                        THEN Insert(removed, token_id, to)
                        ELSE removed
         IN  Outcome([s EXCEPT !.approvals = written], TRUE)

approval(s, caller, to, token_id, approved) ==
    IF token_id \notin DOMAIN s.id_to_owner THEN Outcome(s, FALSE)
    ELSE IF s.id_to_owner[token_id] # caller THEN Outcome(s, FALSE)
    ELSE IF token_id \notin DOMAIN s.approvals
         THEN IF approved = TRUE
              THEN Outcome([s EXCEPT !.approvals = Insert(@, token_id, to)], TRUE)
              ELSE Outcome(s, FALSE)
    ELSE LET existing == s.approvals[token_id]
             removed == IF existing = to /\ approved = FALSE
                        THEN Remove(s.approvals, token_id)
                        ELSE s.approvals
             written == IF approved = TRUE
                        THEN Insert(removed, token_id, to)
                        ELSE removed
         IN  Outcome([s EXCEPT !.approvals = written], TRUE)

\* ---------------------------------------------------------------- actions
\* the host commits the storage a call leaves (the storage it found, when the
\* call trapped)
Commit(r) ==
    /\ owner' = r.st.owner
    /\ total_minted' = r.st.total_minted
    /\ id_to_owner' = r.st.id_to_owner
    /\ owner_to_token_count' = r.st.owner_to_token_count
    /\ approvals' = r.st.approvals
    /\ UNCHANGED <<overflow_checks, word>>

\* the storage before deploy
EmptyStorage ==
    /\ owner = NoAccount
    /\ total_minted = 0
    /\ id_to_owner = EmptyMap
    /\ owner_to_token_count = EmptyMap
    /\ approvals = EmptyMap
    /\ deployed = FALSE

\* no scenario runs: any caller sends any message
NoScenario == [step |-> 0, amount |-> 0, caller |-> NoAccount, ret |-> FALSE]

Init ==
    /\ EmptyStorage
    /\ overflow_checks \in BOOLEAN
    /\ word = Modulus
    /\ scenario = NoScenario

\* the deployment hook runs once, before every message
Deploy ==
    /\ ~deployed
    /\ \E caller \in Deployers, init_value \in Values :
         Commit(deploy(Storage, caller, init_value))
    /\ deployed' = TRUE
    /\ UNCHANGED scenario

Transfer ==
    /\ deployed
    /\ \E caller \in Identities, to \in Identities, token_id \in TokenIds :
         Commit(transfer(Storage, caller, to, token_id))
    /\ UNCHANGED <<deployed, scenario>>

TransferFrom ==
    /\ deployed
    /\ \E caller \in Identities, to \in Identities, token_id \in TokenIds :
         Commit(transfer_from(Storage, caller, to, token_id))
    /\ UNCHANGED <<deployed, scenario>>

Mint ==
    /\ deployed
    /\ \E caller \in Identities, to \in Identities, value \in Values :
         /\ total_minted + value <= MaxMinted
         /\ Commit(mint(Storage, caller, to, value))
    /\ UNCHANGED <<deployed, scenario>>

Approval ==
    /\ deployed
    /\ \E caller \in Identities, to \in Identities, token_id \in TokenIds,
          approved \in BOOLEAN :
         Commit(approval(Storage, caller, to, token_id, approved))
    /\ UNCHANGED <<deployed, scenario>>

Next == Deploy \/ Transfer \/ TransferFrom \/ Mint \/ Approval

Spec == Init /\ [][Next]_vars

\* ------------------------------------------------ minting without a bound
\* every amount of the counter type
AnyValues == 0 .. (Modulus - 1)

\* mint with any amount, also one that takes total_minted past the maximum
MintAny ==
    /\ deployed
    /\ \E caller \in Identities, to \in Identities, value \in AnyValues :
         Commit(mint(Storage, caller, to, value))
    /\ UNCHANGED <<deployed, scenario>>

\* the messages that write the counter, the owner records and the counts;
\* approval writes none of them and is left out
NextOverflow == Deploy \/ Transfer \/ TransferFrom \/ MintAny

SpecOverflow == Init /\ [][NextOverflow]_vars

\* ------------------------------------------------- the end-to-end scenario
\* tests::it_works, from each initial amount that mints the ids it uses; the
\* last call is sent by alice, as in the test, or by the delegate charlie
ScenarioAmounts == 4 .. ScenarioAmount

ScenarioInit ==
    /\ EmptyStorage
    /\ overflow_checks \in BOOLEAN
    /\ word = ScenarioWord
    /\ \E amount \in ScenarioAmounts :
         scenario = [step |-> 0, amount |-> amount, caller |-> NoAccount,
                     ret |-> FALSE]

\* the scenario's call number step, sent by caller, has outcome r
ScenarioCall(step, caller, r) ==
    /\ scenario.step = step - 1
    /\ Commit(r)
    /\ scenario' = [scenario EXCEPT !.step = step, !.caller = caller,
                                    !.ret = r.ret /\ ~r.trap]

ScenarioDeploy ==
    /\ ~deployed
    /\ ScenarioCall(1, "alice", deploy(Storage, "alice", scenario.amount))
    /\ deployed' = TRUE

ScenarioTransfer ==
    /\ ScenarioCall(2, "alice", transfer(Storage, "alice", "bob", 1))
    /\ UNCHANGED deployed

ScenarioApproveCharlie ==
    /\ ScenarioCall(3, "alice", approval(Storage, "alice", "charlie", 2, TRUE))
    /\ UNCHANGED deployed

ScenarioApproveDave ==
    /\ ScenarioCall(4, "alice", approval(Storage, "alice", "dave", 2, TRUE))
    /\ UNCHANGED deployed

ScenarioRevokeDave ==
    /\ ScenarioCall(5, "alice", approval(Storage, "alice", "dave", 2, FALSE))
    /\ UNCHANGED deployed

ScenarioApproveThird ==
    /\ ScenarioCall(6, "alice", approval(Storage, "alice", "charlie", 3, TRUE))
    /\ UNCHANGED deployed

ScenarioTransferFrom ==
    /\ \E caller \in {"alice", "charlie"} :
         ScenarioCall(7, caller, transfer_from(Storage, caller, "bob", 3))
    /\ UNCHANGED deployed

ScenarioNext ==
    \/ ScenarioDeploy
    \/ ScenarioTransfer
    \/ ScenarioApproveCharlie
    \/ ScenarioApproveDave
    \/ ScenarioRevokeDave
    \/ ScenarioApproveThird
    \/ ScenarioTransferFrom

SpecScenario == ScenarioInit /\ [][ScenarioNext]_vars

\* ----------------------------------------------------------------- claims
\* the token ids whose owner record names i
TokensOf(s, i) == {t \in DOMAIN s.id_to_owner : s.id_to_owner[t] = i}

\* every balance is the same in both storages
SameBalances(s1, s2) == \A i \in Identities : balance_of(s1, i) = balance_of(s2, i)

\* C1: in every state reached after deploy, for every identity i, balance_of(i)
\* is the number of token ids whose owner record is i.
C1_BalanceIsOwnedCount ==
    deployed =>
      \A i \in Identities :
        balance_of(Storage, i) = Cardinality(TokensOf(Storage, i))

\* C2: transfer(to, id) returns true iff the caller owns id; on success the
\* owner of id becomes to, the caller's balance goes down by 1 and to's up by
\* 1 (a transfer to oneself nets to no change); on failure no owner record and
\* no balance changes.
C2_TransferContract ==
    deployed =>
      \A caller \in Identities, to \in Identities, token_id \in TokenIds :
        LET r == transfer(Storage, caller, to, token_id)
            owns == is_token_owner(Storage, caller, token_id)
        IN  /\ (~r.trap /\ r.ret) <=> owns
            /\ owns =>
                 /\ is_token_owner(r.st, to, token_id)
                 /\ IF to = caller
                    THEN balance_of(r.st, caller) = balance_of(Storage, caller)
                    ELSE /\ balance_of(r.st, caller) = balance_of(Storage, caller) - 1
                         /\ balance_of(r.st, to) = balance_of(Storage, to) + 1
            /\ ~owns =>
                 /\ r.st.id_to_owner = id_to_owner
                 /\ SameBalances(r.st, Storage)

\* C3: a transfer_from(to, id) that returns, returns true and makes to the
\* owner of id iff the caller owns id or is the approved delegate of id; in
\* every other case it returns false and changes no state.
C3_TransferFromContract ==
    deployed =>
      \A caller \in Identities, to \in Identities, token_id \in TokenIds :
        LET r == transfer_from(Storage, caller, to, token_id)
            allowed == \/ is_token_owner(Storage, caller, token_id)
                       \/ is_approved(Storage, token_id, caller)
        IN  ~r.trap =>
              /\ r.ret <=> allowed
              /\ r.ret => is_token_owner(r.st, to, token_id)
              /\ ~allowed => r.st = Storage

\* the amounts the model mints from the current state
Mintable == {value \in Values : total_minted + value <= MaxMinted}

\* the step commits the outcome r of a call that returned true
Returned(r) == ~r.trap /\ r.ret /\ Storage' = r.st

\* C4: a mint of amount tokens for receiver (by the contract owner, or the
\* initial mint of deploy) leaves every id in T+1 .. T+amount owned by
\* receiver, T being total_minted before the call.
C4_MintCreatesAmountRecords ==
    [][/\ (deployed =>
             \A receiver \in Identities, amount \in Mintable :
               Returned(mint(Storage, owner, receiver, amount)) =>
                 \A id \in (total_minted + 1) .. (total_minted + amount) :
                   is_token_owner(Storage', receiver, id))
       /\ (~deployed /\ deployed' =>
             \A caller \in Deployers, amount \in Values :
               Returned(deploy(Storage, caller, amount)) =>
                 \A id \in 1 .. amount : is_token_owner(Storage', caller, id))
      ]_vars

\* C5: mint(receiver, amount) by the contract owner raises balance_of(receiver)
\* by amount and total_minted by amount, for every receiver.
C5_MintCreditsReceiver ==
    [][deployed =>
         \A receiver \in Identities, amount \in Mintable :
           Returned(mint(Storage, owner, receiver, amount)) =>
             /\ balance_of(Storage', receiver)
                  = balance_of(Storage, receiver) + amount
             /\ get_total_minted(Storage') = get_total_minted(Storage) + amount
      ]_vars

\* C6: mint(to, n) by a caller that is not the contract owner returns false and
\* leaves total_minted, the balances, the owner records and the approvals as
\* they were.
C6_MintByNonOwnerRejected ==
    deployed =>
      \A caller \in Identities \ {owner}, to \in Identities, value \in Values :
        LET r == mint(Storage, caller, to, value)
        IN  /\ ~r.trap
            /\ ~r.ret
            /\ r.st = Storage

\* C6 happens: tokens are minted and one is approved, a holder of a token that
\* is not the contract owner asks to mint and is refused.
C6_Witness ==
    /\ deployed
    /\ total_minted > 0
    /\ DOMAIN approvals # {}
    /\ \E caller \in Identities \ {owner} :
         /\ TokensOf(Storage, caller) # {}
         /\ \E to \in Identities, value \in Values \ {0} :
              /\ ~mint(Storage, caller, to, value).ret
              /\ mint(Storage, caller, to, value).st = Storage

\* C7: when the caller owns id, approval(d, id, true) returns true and leaves
\* is_approved(id, d) true, and is_approved(id, p) false for a different
\* delegate p that was approved before.
C7_GrantOverwrites ==
    deployed =>
      \A caller \in Identities, d \in Identities, token_id \in TokenIds :
        is_token_owner(Storage, caller, token_id) =>
          LET r == approval(Storage, caller, d, token_id, TRUE)
          IN  /\ ~r.trap
              /\ r.ret
              /\ is_approved(r.st, token_id, d)
              /\ \A p \in Identities \ {d} :
                   is_approved(Storage, token_id, p) =>
                     ~is_approved(r.st, token_id, p)

\* C7 happens: the owner of a token grants d while another delegate p is
\* approved, and d replaces p.
C7_Witness ==
    /\ deployed
    /\ \E caller \in Identities, d \in Identities, token_id \in DOMAIN approvals :
         /\ is_token_owner(Storage, caller, token_id)
         /\ approvals[token_id] # d
         /\ LET r == approval(Storage, caller, d, token_id, TRUE)
            IN  /\ r.ret
                /\ is_approved(r.st, token_id, d)
                /\ ~is_approved(r.st, token_id, approvals[token_id])

\* C8: when the caller owns id, approval(d, id, false) removes the approval
\* entry of id, making is_approved(id, d) false, exactly when d is the approved
\* delegate of id; for any other d the approval map stays as it was.
C8_RevokeOnlyMatching ==
    deployed =>
      \A caller \in Identities, d \in Identities, token_id \in TokenIds :
        is_token_owner(Storage, caller, token_id) =>
          LET r == approval(Storage, caller, d, token_id, FALSE)
          IN  /\ ~r.trap
              /\ ~is_approved(r.st, token_id, d)
              /\ IF is_approved(Storage, token_id, d)
                 THEN r.st.approvals = Remove(approvals, token_id)
                 ELSE r.st.approvals = approvals

\* C8 happens: a token has an approved delegate; its owner's revoke of that
\* delegate removes the entry, its revoke of another identity leaves it.
C8_Witness ==
    /\ deployed
    /\ \E caller \in Identities, token_id \in DOMAIN approvals :
         /\ is_token_owner(Storage, caller, token_id)
         /\ token_id \notin
              DOMAIN approval(Storage, caller, approvals[token_id],
                              token_id, FALSE).st.approvals
         /\ \E d \in Identities \ {approvals[token_id]} :
              approval(Storage, caller, d, token_id, FALSE).st.approvals = approvals

\* C9: approval(d, id, grant) returns false and changes no state when id has no
\* owner record or the caller is not the owner of id, whoever the caller is.
C9_ApprovalRejected ==
    deployed =>
      \A caller \in Identities, d \in Identities, token_id \in TokenIds,
         grant \in BOOLEAN :
        ~is_token_owner(Storage, caller, token_id) =>
          LET r == approval(Storage, caller, d, token_id, grant)
          IN  /\ ~r.trap
              /\ ~r.ret
              /\ r.st = Storage

\* C9 happens: a token is owned by an identity other than the contract owner
\* and has an approved delegate; the contract owner's grant and revoke for it
\* are refused, and so is a grant for an id that was never minted.
C9_Witness ==
    /\ deployed
    /\ \E token_id \in DOMAIN approvals :
         /\ token_id \in DOMAIN id_to_owner
         /\ id_to_owner[token_id] # owner
         /\ ~approval(Storage, owner, owner, token_id, TRUE).ret
         /\ ~approval(Storage, owner, approvals[token_id], token_id, FALSE).ret
    /\ \E token_id \in TokenIds \ DOMAIN id_to_owner :
         ~approval(Storage, owner, owner, token_id, TRUE).ret

\* C10: approval(d, id, false) by the owner of id, when d is not the approved
\* delegate of id (none is, or another is), returns false and changes no state.
C10_RevokeMismatchRejected ==
    deployed =>
      \A caller \in Identities, d \in Identities, token_id \in TokenIds :
        (is_token_owner(Storage, caller, token_id)
           /\ ~is_approved(Storage, token_id, d)) =>
          LET r == approval(Storage, caller, d, token_id, FALSE)
          IN  /\ ~r.trap
              /\ ~r.ret
              /\ r.st = Storage

\* C11: the scenario from deploy(100) by alice holds step by step: after the
\* deploy total_minted is 100 and alice owns ids 1..100; after transfer(bob, 1)
\* alice has 99 and bob 1; after the grants of token 2 to charlie, then dave,
\* dave is approved and charlie is not; after the revoke of dave, dave is not;
\* after the grant of token 3 to charlie, charlie's transfer_from(bob, 3)
\* returns true and bob has 2.
C11_Scenario ==
    scenario.amount = ScenarioAmount =>
      /\ scenario.step = 1 =>
           /\ get_total_minted(Storage) = ScenarioAmount
           /\ \A id \in 1 .. ScenarioAmount : is_token_owner(Storage, "alice", id)
      /\ scenario.step = 2 =>
           /\ balance_of(Storage, "alice") = ScenarioAmount - 1
           /\ balance_of(Storage, "bob") = 1
      /\ scenario.step = 4 =>
           /\ is_approved(Storage, 2, "dave")
           /\ ~is_approved(Storage, 2, "charlie")
      /\ scenario.step = 5 => ~is_approved(Storage, 2, "dave")
      /\ (scenario.step = 7 /\ scenario.caller = "charlie") =>
           /\ scenario.ret
           /\ balance_of(Storage, "bob") = 2

\* C12: a transfer or transfer_from that returns true leaves the approval map
\* as it was: a delegate d approved for the token before is still approved
\* for it afterwards, under the new owner.
C12_TransferKeepsApprovals ==
    deployed =>
      \A caller \in Identities, to \in Identities, token_id \in TokenIds :
        \A r \in {transfer(Storage, caller, to, token_id),
                  transfer_from(Storage, caller, to, token_id)} :
          (r.ret /\ ~r.trap) =>
            /\ r.st.approvals = approvals
            /\ \A d \in Identities :
                 is_approved(Storage, token_id, d) => is_approved(r.st, token_id, d)

\* C12 happens: a token with an approved delegate is moved to another identity
\* by transfer and by transfer_from, and the delegate is approved under the
\* new owner.
C12_Witness ==
    /\ deployed
    /\ \E token_id \in DOMAIN approvals :
       \E caller \in Identities \ {approvals[token_id]} :
       \E to \in Identities \ {caller} :
         LET r == transfer(Storage, caller, to, token_id)
             f == transfer_from(Storage, caller, to, token_id)
         IN  /\ r.ret
             /\ is_token_owner(r.st, to, token_id)
             /\ is_approved(r.st, token_id, approvals[token_id])
             /\ f.ret
             /\ is_token_owner(f.st, to, token_id)
             /\ is_approved(f.st, token_id, approvals[token_id])

\* C13: in every reachable state every token id that has an owner record
\* satisfies 1 <= token_id <= total_minted.
C13_OwnedIdsWithinCounter ==
    \A token_id \in DOMAIN id_to_owner :
      1 <= token_id /\ token_id <= total_minted

\* the sum of the balances of the identities in who
RECURSIVE BalanceSum(_, _)
BalanceSum(s, who) ==
    IF who = {} THEN 0
    ELSE LET i == CHOOSE x \in who : TRUE
         IN  balance_of(s, i) + BalanceSum(s, who \ {i})

\* C14: in every reachable state the sum of all balances is the number of
\* token ids that have an owner record.
C14_BalanceSumIsRecordCount ==
    deployed =>
      BalanceSum(Storage, Identities) = Cardinality(DOMAIN id_to_owner)

\* C15: when the caller owns the token, transfer_from(to, id) and
\* transfer(to, id) from the same state return the same value and leave the
\* same storage, whether or not the token has an approval entry.
C15_OwnerTransferFromIsTransfer ==
    deployed =>
      \A caller \in Identities, to \in Identities, token_id \in TokenIds :
        is_token_owner(Storage, caller, token_id) =>
          LET f == transfer_from(Storage, caller, to, token_id)
              r == transfer(Storage, caller, to, token_id)
          IN  /\ f.trap = r.trap
              /\ f.ret = r.ret
              /\ f.st = r.st

\* C15 happens: the owner of a token that has another identity as approved
\* delegate moves it to a third with transfer_from, as transfer would.
C15_Witness ==
    /\ deployed
    /\ \E token_id \in DOMAIN approvals :
       \E caller \in Identities \ {approvals[token_id]} :
       \E to \in Identities \ {caller} :
         LET f == transfer_from(Storage, caller, to, token_id)
         IN  /\ is_token_owner(Storage, caller, token_id)
             /\ f.ret
             /\ is_token_owner(f.st, to, token_id)
             /\ f.st = transfer(Storage, caller, to, token_id).st

\* C16: every transfer or transfer_from that returns true leaves the sum of
\* all balances as it was, also when the destination is the current owner: a
\* transfer to oneself leaves that identity's balance unchanged.
C16_TransferKeepsBalanceSum ==
    [][deployed =>
         \A caller \in Identities, to \in Identities, token_id \in TokenIds :
           \A r \in {transfer(Storage, caller, to, token_id),
                     transfer_from(Storage, caller, to, token_id)} :
             Returned(r) =>
               /\ BalanceSum(Storage', Identities) = BalanceSum(Storage, Identities)
               /\ is_token_owner(Storage, to, token_id) =>
                    balance_of(Storage', to) = balance_of(Storage, to)
      ]_vars

\* C17: in every reachable state every identity that owns a token id has
\* balance_of >= 1, so the decrement of a transfer never starts from zero,
\* also for a receiver whose tokens came from mint.
C17_OwnerHasBalance ==
    deployed =>
      \A i \in Identities :
        TokensOf(Storage, i) # {} =>
          /\ balance_of(Storage, i) >= 1
          /\ ~SubOverflows(balance_of(Storage, i), 1)

\* C18: a token id that has an owner record has one after every step: no
\* operation removes an id_to_owner entry, a transfer only rewrites it.
C18_OwnerRecordsStay ==
    [][\A token_id \in DOMAIN id_to_owner :
         /\ token_id \in DOMAIN id_to_owner'
         /\ id_to_owner'[token_id] \in Identities
      ]_vars

\* C18 happens: a token has been transferred to an identity that is not the
\* contract owner (only a transfer credits such an identity) and it still has
\* its owner record, now naming that identity.
C18_Witness ==
    /\ deployed
    /\ \E i \in Identities \ {owner} :
         /\ owner_to_token_count # EmptyMap
         /\ i \in DOMAIN owner_to_token_count
         /\ balance_of(Storage, i) = 1
         /\ TokensOf(Storage, i) # {}

\* C19: in every reachable state the token ids that have an approved delegate
\* are among the token ids that have an owner record.
C19_ApprovalsOnlyForOwnedIds ==
    DOMAIN approvals \subseteq DOMAIN id_to_owner

\* C19 happens: one token has an approved delegate, another id of the range
\* has no owner record, and every grant for that id is refused.
C19_Witness ==
    /\ deployed
    /\ DOMAIN approvals # {}
    /\ \E token_id \in TokenIds \ DOMAIN id_to_owner :
         /\ token_id >= 1
         /\ \A caller \in Identities, to \in Identities :
              /\ ~approval(Storage, caller, to, token_id, TRUE).ret
              /\ approval(Storage, caller, to, token_id, TRUE).st = Storage

\* C20: total_minted after every operation is >= total_minted before it, also
\* after a mint whose amount takes the counter past its maximum, and once the
\* contract is deployed only a mint by the contract owner changes it.
C20_TotalMintedNeverDecreases ==
    [][/\ get_total_minted(Storage') >= get_total_minted(Storage)
       /\ (deployed /\ get_total_minted(Storage') # get_total_minted(Storage)) =>
            \E to \in Identities, value \in AnyValues :
              Returned(mint(Storage, owner, to, value))
      ]_vars

====
